---- MODULE Spec2Model ----
\* Model of the Gemini connector (src/main.ts): the reference scanner, the
\* token normalizer, the attachment loader, the message part builder and the
\* completion loop of main.  A JavaScript string is a sequence of one-character
\* strings, so that trimming, regular expressions and path functions are computed
\* character by character.
EXTENDS Integers, Sequences, FiniteSets, TLC

VARIABLES
    prompts,        \* main's argument: the batch, a sequence of strings
    pc,             \* position of main: start, loop, load, send, count, done, rejected
    i,              \* index of the prompt the for-of loop is at
    references,     \* buildMessageParts: Array.from(references) of the current prompt
    k,              \* buildMessageParts: index of the reference being loaded
    inlineParts,    \* buildMessageParts: the parts loaded so far
    messageParts,   \* main: the parts built for the current prompt
    text,           \* main: result.text ?? '' of the current prompt
    outputs,        \* main: the outputs array
    response,       \* what main returned (Completions), <<>> until it returns
    history,        \* the chat session's recorded turns (chat is created once)
    trace,          \* log of the calls made to the collaborators and their outcomes
    norm            \* the normalizer applied to one string, then to its own result

vars == <<prompts, pc, i, references, k, inlineParts, messageParts, text,
          outputs, response, history, trace, norm>>

mainVars == <<prompts, pc, i, references, k, inlineParts, messageParts, text,
              outputs, response, history, trace>>

\* -------------------------------------------------------------------------
\* Bounds
\* -------------------------------------------------------------------------

\* longest batch of prompts main is given
MaxPrompts == 2

\* longest string the normalizer is applied to in SpecNorm
MaxLen == 3

\* -------------------------------------------------------------------------
\* Characters and strings
\* -------------------------------------------------------------------------

LowerLetters == <<"a","b","c","d","e","f","g","h","i","j","k","l","m",
                  "n","o","p","q","r","s","t","u","v","w","x","y","z">>

UpperLetters == <<"A","B","C","D","E","F","G","H","I","J","K","L","M",
                  "N","O","P","Q","R","S","T","U","V","W","X","Y","Z">>

Digits == {"0","1","2","3","4","5","6","7","8","9"}

Range(s) == {s[n] : n \in DOMAIN s}

IsAlpha(c) == c \in Range(LowerLetters) \cup Range(UpperLetters)

\* \w of a JavaScript regular expression
IsWordChar(c) == IsAlpha(c) \/ c \in Digits \/ c = "_"

\* \s of a regular expression and the characters String.prototype.trim removes
Whitespace == {" ", "\t", "\n", "\r"}

ToLowerChar(c) ==
    IF c \in Range(UpperLetters)
    THEN LowerLetters[CHOOSE n \in DOMAIN UpperLetters : UpperLetters[n] = c]
    ELSE c

ToLowerCase(s) == [n \in DOMAIN s |-> ToLowerChar(s[n])]

StartsWith(s, p) == Len(s) >= Len(p) /\ SubSeq(s, 1, Len(p)) = p

DropFirst(s, n) == SubSeq(s, n + 1, Len(s))

\* index of the first element of s, at or after position from, that is in set S; 0 if none
RECURSIVE IndexOfAny(_, _, _)
IndexOfAny(s, S, from) ==
    IF from > Len(s) THEN 0
    ELSE IF s[from] \in S THEN from
    ELSE IndexOfAny(s, S, from + 1)

\* index of the last element of s that is in set S; 0 if none
RECURSIVE LastIndexOfAny(_, _, _)
LastIndexOfAny(s, S, upto) ==
    IF upto < 1 THEN 0
    ELSE IF s[upto] \in S THEN upto
    ELSE LastIndexOfAny(s, S, upto - 1)

\* s without its leading run of characters of S
RECURSIVE DropLeading(_, _)
DropLeading(s, S) ==
    IF s # <<>> /\ Head(s) \in S THEN DropLeading(Tail(s), S) ELSE s

\* s without its trailing run of characters of S, one character at a time
RECURSIVE DropTrailing(_, _)
DropTrailing(s, S) ==
    IF s # <<>> /\ s[Len(s)] \in S
    THEN DropTrailing(SubSeq(s, 1, Len(s) - 1), S)
    ELSE s

\* s.split(c)[0]: the part of s before the first c
BeforeFirst(s, c) ==
    LET n == IndexOfAny(s, {c}, 1)
    IN  IF n = 0 THEN s ELSE SubSeq(s, 1, n - 1)

\* String.prototype.trim
Trim(s) == DropTrailing(DropLeading(s, Whitespace), Whitespace)

\* -------------------------------------------------------------------------
\* Token normalizer
\* -------------------------------------------------------------------------

\* /^[<({\['"]+/
Openers == {"<", "(", "{", "[", "'", "\""}

\* /[>)}\]'".,;!]+$/
Closers == {">", ")", "}", "]", "'", "\"", ".", ",", ";", "!"}

\* a normalizer whose leading pattern lost its +: one opener is removed, not the run
stripOneOpener(value) ==
    LET t == Trim(value)
        candidate == IF t # <<>> /\ Head(t) \in Openers THEN Tail(t) ELSE t
    IN  DropTrailing(candidate, Closers)

stripWrappingCharacters(value) ==
    LET candidate == DropLeading(Trim(value), Openers)
    IN  DropTrailing(candidate, Closers)

\* -------------------------------------------------------------------------
\* Type classifier
\* -------------------------------------------------------------------------

\* JavaScript's undefined / null, where a string is expected
Undefined == "undefined"

SUPPORTED_FILE_TYPES(ext) ==
    CASE ext = <<".","p","d","f">>     -> "application/pdf"
      [] ext = <<".","p","n","g">>     -> "image/png"
      [] ext = <<".","j","p","g">>     -> "image/jpeg"
      [] ext = <<".","j","p","e","g">> -> "image/jpeg"
      [] ext = <<".","g","i","f">>     -> "image/gif"
      [] ext = <<".","b","m","p">>     -> "image/bmp"
      [] ext = <<".","w","e","b","p">> -> "image/webp"
      [] ext = <<".","s","v","g">>     -> "image/svg+xml"
      [] ext = <<".","h","e","i","c">> -> "image/heic"
      [] ext = <<".","h","e","i","f">> -> "image/heif"
      [] OTHER                         -> Undefined

\* path.extname of one path segment: the text from its last ".", at position
\* dot; "" when there is no dot, when the dot is the first character of the
\* segment, or when the segment is ".."
SegmentExtname(segment, dot) ==
    IF dot <= 1 \/ segment = <<".", ".">>
    THEN <<>>
    ELSE SubSeq(segment, dot, Len(segment))

\* the last segment of a path without trailing separators
LastSegment(q) == DropFirst(q, LastIndexOfAny(q, {"/"}, Len(q)))

SegmentExtension(segment) ==
    SegmentExtname(segment, LastIndexOfAny(segment, {"."}, Len(segment)))

\* path.extname (POSIX); trailing separators are ignored
PathExtname(p) == SegmentExtension(LastSegment(DropTrailing(p, {"/"})))

\* ext ? ext.toLowerCase() : null; the empty sequence stands for null
LowerOrNull(ext) == IF ext # <<>> THEN ToLowerCase(ext) ELSE <<>>

getExtension(input) ==
    LowerOrNull(PathExtname(BeforeFirst(BeforeFirst(input, "?"), "#")))

\* ext && SUPPORTED_FILE_TYPES[ext]
IsSupported(ext) == ext # <<>> /\ SUPPORTED_FILE_TYPES(ext) # Undefined

\* -------------------------------------------------------------------------
\* Path / URL resolver
\* -------------------------------------------------------------------------

HttpScheme == <<"h","t","t","p">>
HttpsScheme == <<"h","t","t","p","s">>
FileScheme == <<"f","i","l","e">>
FilePrefix == <<"f","i","l","e",":","/","/">>
Localhost == <<"l","o","c","a","l","h","o","s","t">>

\* the URL standard's forbidden host code points
ForbiddenHost == {" ", "\t", "\n", "\r", "#", "/", ":", "<", ">", "?", "@",
                  "[", "\\", "]", "^", "|"}

InvalidURL == [ok |-> FALSE, protocol |-> <<>>, host |-> <<>>, pathname |-> <<>>]

\* new URL(value), without a base, in stages: the scheme, then for http, https
\* and file the host, the port and the path.  ok is FALSE where the
\* constructor throws: no scheme, a host holding a forbidden code point, an
\* empty http(s) host, a port that is not a number.  Credentials, IPv6
\* literals and percent-escapes are left out: a "[" or "@" in a host makes
\* the URL invalid.
IsSpecial(protocol) == protocol \in {HttpScheme, HttpsScheme}

ValidScheme(scheme) ==
    /\ scheme # <<>>
    /\ IsAlpha(scheme[1])
    /\ \A n \in DOMAIN scheme :
           IsAlpha(scheme[n]) \/ scheme[n] \in Digits \cup {"+", "-", "."}

\* the host is checked, lower-cased, and "localhost" of a file: URL dropped
ParseHost(protocol, rawHost, port, pathname) ==
    IF \E n \in DOMAIN rawHost : rawHost[n] \in ForbiddenHost THEN InvalidURL
    ELSE IF \E n \in DOMAIN port : port[n] \notin Digits THEN InvalidURL
    ELSE IF IsSpecial(protocol) /\ rawHost = <<>> THEN InvalidURL
    ELSE IF protocol = FileScheme /\ port # <<>> THEN InvalidURL
    ELSE [ok |-> TRUE, protocol |-> protocol,
          host |-> IF protocol = FileScheme /\ ToLowerCase(rawHost) = Localhost
                   THEN <<>> ELSE ToLowerCase(rawHost),
          pathname |-> pathname]

\* the authority is split at its ":", at position portAt
ParsePort(protocol, authority, portAt, pathname) ==
    IF portAt = 0 THEN ParseHost(protocol, authority, <<>>, pathname)
    ELSE ParseHost(protocol, SubSeq(authority, 1, portAt - 1),
                   DropFirst(authority, portAt), pathname)

\* the text after the slashes is split where the host ends, at position hostEnd
ParseAuthority(protocol, after, hostEnd) ==
    IF hostEnd = 0
    THEN ParsePort(protocol, after, IndexOfAny(after, {":"}, 1), <<"/">>)
    ELSE ParsePort(protocol, SubSeq(after, 1, hostEnd - 1),
                   IndexOfAny(SubSeq(after, 1, hostEnd - 1), {":"}, 1),
                   BeforeFirst(BeforeFirst(DropFirst(after, hostEnd - 1), "?"), "#"))

\* after the scheme: http and https skip any slashes, the others have an
\* authority only after "//"
ParseAfterScheme(protocol, rest) ==
    IF IsSpecial(protocol)
    THEN ParseAuthority(protocol, DropLeading(rest, {"/", "\\"}),
                        IndexOfAny(DropLeading(rest, {"/", "\\"}), {"/", "?", "#"}, 1))
    ELSE IF StartsWith(rest, <<"/", "/">>)
    THEN ParseAuthority(protocol, DropFirst(rest, 2),
                        IndexOfAny(DropFirst(rest, 2), {"/", "?", "#"}, 1))
    ELSE [ok |-> TRUE, protocol |-> protocol, host |-> <<>>, pathname |-> rest]

ParseScheme(value, colon) ==
    IF colon = 0 \/ ~ValidScheme(SubSeq(value, 1, colon - 1)) THEN InvalidURL
    ELSE ParseAfterScheme(ToLowerCase(SubSeq(value, 1, colon - 1)),
                          DropFirst(value, colon))

ParseURL(value) == ParseScheme(value, IndexOfAny(value, {":"}, 1))

IsHttpProtocol(url) == url.ok /\ url.protocol \in {HttpScheme, HttpsScheme}

isHttpUrl(value) == IsHttpProtocol(ParseURL(value))

IsFileProtocol(url) == url.ok /\ url.protocol = FileScheme

isFileUrl(value) == IsFileProtocol(ParseURL(value))

\* fileURLToPath(url) on POSIX: throws when the URL is not a file: URL or
\* names a host; otherwise the URL's path
fileURLToPath(url) ==
    IF url.ok /\ url.protocol = FileScheme /\ url.host = <<>>
    THEN [threw |-> FALSE, path |-> url.pathname]
    ELSE [threw |-> TRUE, path |-> <<>>]

\* fileURLToPath(new URL(value)): throws when either does
FileUrlPath(value) == fileURLToPath(ParseURL(value))

\* os.homedir() and process.cwd()
Homedir == <<"/", "h">>
Cwd == <<"/", "w">>

\* path.join / path.resolve of a directory and a path below it
JoinPath(dir, p) ==
    IF p = <<>> THEN dir
    ELSE IF Head(p) = "/" THEN dir \o p
    ELSE dir \o <<"/">> \o p

resolveLocalPath(reference) ==
    IF isFileUrl(reference) THEN FileUrlPath(reference)
    ELSE IF StartsWith(reference, <<"~">>)
    THEN [threw |-> FALSE, path |-> JoinPath(Homedir, Tail(reference))]
    ELSE IF StartsWith(reference, <<"/">>)
    THEN [threw |-> FALSE, path |-> reference]
    ELSE [threw |-> FALSE, path |-> JoinPath(Cwd, reference)]

\* getExtension of a path fileURLToPath may have failed to give
ExtensionOfPath(p) ==
    IF p.threw THEN [threw |-> TRUE, ext |-> <<>>]
    ELSE [threw |-> FALSE, ext |-> getExtension(p.path)]

\* getExtension(candidate.startsWith('file://') ? fileURLToPath(new URL(candidate))
\* : candidate): the expression of extractFileReferences and of
\* loadInlineDataPart, which stands outside any try
ReferenceExtension(candidate) ==
    IF StartsWith(candidate, FilePrefix)
    THEN ExtensionOfPath(FileUrlPath(candidate))
    ELSE [threw |-> FALSE, ext |-> getExtension(candidate)]

\* -------------------------------------------------------------------------
\* Reference scanner
\* -------------------------------------------------------------------------

\* [^\s<>"')] of REMOTE_LINK_REGEX
LinkStop == Whitespace \cup {"<", ">", "\"", "'", ")"}

\* the length of (?:https?:\/\/|file:\/\/) at the head of low, a lower-cased
\* text (the i flag); 0 if it does not match
PrefixLenOf(low) ==
    IF StartsWith(low, HttpScheme \o <<":", "/", "/">>) THEN 7
    ELSE IF StartsWith(low, HttpsScheme \o <<":", "/", "/">>) THEN 8
    ELSE IF StartsWith(low, FilePrefix) THEN 7
    ELSE 0

LinkPrefixLen(s, p) == PrefixLenOf(ToLowerCase(SubSeq(s, p, Len(s))))

\* \b before position p, where a word character stands
WordBoundaryBefore(s, p) == p = 1 \/ ~IsWordChar(s[p - 1])

\* [^\s<>"')]+ from position from on, which stops at position stop (0: at the end)
LinkBodyEnd(s, from, stop) ==
    IF stop = from THEN 0
    ELSE IF stop = 0 THEN (IF from > Len(s) THEN 0 ELSE Len(s) + 1)
    ELSE stop

LinkMatchFrom(s, p, n) ==
    IF n > 0 /\ WordBoundaryBefore(s, p)
    THEN LinkBodyEnd(s, p + n, IndexOfAny(s, LinkStop, p + n))
    ELSE 0

\* the position after the match of REMOTE_LINK_REGEX that starts at p; 0 if none
LinkMatchEnd(s, p) == LinkMatchFrom(s, p, LinkPrefixLen(s, p))

\* text.match(REMOTE_LINK_REGEX) ?? []: the matches from left to right (the g
\* flag), each with the position it starts at
RECURSIVE RemoteMatches(_, _)
RemoteMatchesFrom(s, p, end) ==
    IF end = 0 THEN RemoteMatches(s, p + 1)
    ELSE <<[start |-> p, raw |-> SubSeq(s, p, end - 1)]>> \o RemoteMatches(s, end)

RemoteMatches(s, p) ==
    IF p > Len(s) THEN <<>> ELSE RemoteMatchesFrom(s, p, LinkMatchEnd(s, p))

\* text.split(/\s+/) from position p on: the tokens between the runs of
\* whitespace (empty ones included), each with the position it starts at
RECURSIVE SplitWhitespace(_, _)
SplitAfter(s, p, ws, next) ==
    <<[start |-> p, raw |-> SubSeq(s, p, ws - 1)]>>
    \o SplitWhitespace(s, IF next = 0 THEN Len(s) + 1 ELSE next)

SplitAt(s, p, ws) ==
    IF ws = 0 THEN <<[start |-> p, raw |-> DropFirst(s, p - 1)]>>
    ELSE SplitAfter(s, p, ws, IndexOfAny(s, Range(s) \ Whitespace, ws))

SplitWhitespace(s, p) == SplitAt(s, p, IndexOfAny(s, Whitespace, p))

\* Set.prototype.add on a set kept in insertion order
SetAdd(set, x) == IF x \in Range(set) THEN set ELSE Append(set, x)

\* an array that is never deduplicated, where the code uses a Set
ArrayPush(set, x) == Append(set, x)

\* references.add(candidate)
ReferencesAdd(set, x) == SetAdd(set, x)

\* if (ext && SUPPORTED_FILE_TYPES[ext]) references.add(candidate)
AddIfSupported(refs, candidate, ext) ==
    IF IsSupported(ext) THEN ReferencesAdd(refs, candidate) ELSE refs

\* the first loop of extractFileReferences over matches n.., which throws if
\* the extension of a file:// match cannot be taken
RECURSIVE RemotePass(_, _, _)
RemoteStep(matches, n, refs, candidate, e) ==
    IF e.threw THEN [threw |-> TRUE, refs |-> refs]
    ELSE RemotePass(matches, n + 1, AddIfSupported(refs, candidate, e.ext))

RemoteCandidate(matches, n, refs, candidate) ==
    RemoteStep(matches, n, refs, candidate, ReferenceExtension(candidate))

RemotePass(matches, n, refs) ==
    IF n > Len(matches) THEN [threw |-> FALSE, refs |-> refs]
    ELSE RemoteCandidate(matches, n, refs, stripWrappingCharacters(matches[n].raw))

\* !candidate || isHttpUrl(candidate) || isFileUrl(candidate)
SkipsToken(candidate) ==
    candidate = <<>> \/ isHttpUrl(candidate) \/ isFileUrl(candidate)

\* the second loop of extractFileReferences over tokens n..
RECURSIVE TokenPass(_, _, _)
TokenCandidate(tokens, n, refs, candidate) ==
    IF SkipsToken(candidate) THEN TokenPass(tokens, n + 1, refs)
    ELSE TokenPass(tokens, n + 1,
                   AddIfSupported(refs, candidate, getExtension(candidate)))

TokenPass(tokens, n, refs) ==
    IF n > Len(tokens) THEN refs
    ELSE TokenCandidate(tokens, n, refs, stripWrappingCharacters(tokens[n].raw))

\* the bare-token loop, which follows the link loop unless that one threw
AfterRemotePass(s, remote) ==
    IF remote.threw THEN remote
    ELSE [threw |-> FALSE,
          refs |-> TokenPass(SplitWhitespace(s, 1), 1, remote.refs)]

\* a scanner that runs the bare-token loop before the link loop
extractTokensFirst(s) ==
    RemotePass(RemoteMatches(s, 1), 1, TokenPass(SplitWhitespace(s, 1), 1, <<>>))

\* threw: the call raised; refs: Array.from(references)
extractFileReferences(s) ==
    AfterRemotePass(s, RemotePass(RemoteMatches(s, 1), 1, <<>>))

\* -------------------------------------------------------------------------
\* Attachment loader
\* -------------------------------------------------------------------------

Null == [kind |-> "null", text |-> <<>>, mimeType |-> "", data |-> <<>>]

\* { text: prompt }
TextPart(prompt) ==
    [kind |-> "text", text |-> prompt, mimeType |-> "", data |-> <<>>]

\* { inlineData: { mimeType, data } }; data is the base64 text of the bytes
\* found at source, which the location they were read from stands for
InlinePart(mimeType, source) ==
    [kind |-> "inlineData", text |-> <<>>, mimeType |-> mimeType, data |-> source]

MimeOrFallback(ext, fallbackExt) ==
    IF IsSupported(ext) THEN SUPPORTED_FILE_TYPES(ext)
    ELSE IF SUPPORTED_FILE_TYPES(fallbackExt) # Undefined
    THEN SUPPORTED_FILE_TYPES(fallbackExt)
    ELSE "application/octet-stream"

guessMimeType(reference, fallbackExt) ==
    MimeOrFallback(getExtension(reference), fallbackExt)

\* what the network and the file system can answer to one load
HttpOutcomes == {"fetchRaises", "notOk", "bodyRaises",
                 "okNoHeader", "okSameHeader", "okOtherHeader"}
FileOutcomes == {"readRaises", "readOk"}

\* response.headers.get('content-type')?.split(';')[0]?.trim()
HeaderMime(outcome, ext) ==
    CASE outcome = "okSameHeader"  -> SUPPORTED_FILE_TYPES(ext)
      [] outcome = "okOtherHeader" -> "text/html"
      [] OTHER                     -> Undefined

\* headerMime && SUPPORTED_FILE_TYPES[ext] !== headerMime ? headerMime : SUPPORTED_FILE_TYPES[ext]
RemoteMime(headerMime, ext) ==
    IF headerMime # Undefined /\ SUPPORTED_FILE_TYPES(ext) # headerMime
    THEN headerMime ELSE SUPPORTED_FILE_TYPES(ext)

\* lines 134-147: the fetch, the status, the body, the part
FetchRemote(resolvedRef, ext, outcome) ==
    IF outcome \in {"okNoHeader", "okSameHeader", "okOtherHeader"}
    THEN [threw |-> FALSE,
          part |-> InlinePart(RemoteMime(HeaderMime(outcome, ext), ext), resolvedRef)]
    ELSE [threw |-> FALSE, part |-> Null]

\* lines 150-157: the path, the read, the part; the catch of line 158 answers
\* null when resolveLocalPath or the read raises
ReadLocal(filePath, ext, outcome) ==
    IF filePath.threw \/ outcome # "readOk"
    THEN [threw |-> FALSE, part |-> Null]
    ELSE [threw |-> FALSE,
          part |-> InlinePart(guessMimeType(filePath.path, ext), filePath.path)]

\* lines 132-161, for a supported extension
LoadSupported(resolvedRef, ext, outcome) ==
    IF isHttpUrl(resolvedRef) THEN FetchRemote(resolvedRef, ext, outcome)
    ELSE ReadLocal(resolveLocalPath(resolvedRef), ext, outcome)

\* lines 126-130: the extension is taken outside the try
LoadWithExtension(resolvedRef, e, outcome) ==
    IF e.threw THEN [threw |-> TRUE, part |-> Null]
    ELSE IF ~IsSupported(e.ext) THEN [threw |-> FALSE, part |-> Null]
    ELSE LoadSupported(resolvedRef, e.ext, outcome)

LoadResolved(resolvedRef, outcome) ==
    LoadWithExtension(resolvedRef, ReferenceExtension(resolvedRef), outcome)

\* threw: the call raised; part: the part returned, Null for null
loadInlineDataPart(reference, outcome) ==
    LoadResolved(stripWrappingCharacters(reference), outcome)

\* the outcomes the environment can give to the load of reference: one only
\* when the loader returns or raises before it reads anything
OutcomesOfLoad(resolvedRef, e) ==
    IF e.threw THEN {"extensionRaises"}
    ELSE IF ~IsSupported(e.ext) THEN {"unsupported"}
    ELSE IF isHttpUrl(resolvedRef) THEN HttpOutcomes
    ELSE IF resolveLocalPath(resolvedRef).threw THEN {"resolveRaises"}
    ELSE FileOutcomes

OutcomesOfResolved(resolvedRef) ==
    OutcomesOfLoad(resolvedRef, ReferenceExtension(resolvedRef))

OutcomesFor(reference) == OutcomesOfResolved(stripWrappingCharacters(reference))

\* -------------------------------------------------------------------------
\* Prompts and collaborator outcomes
\* -------------------------------------------------------------------------

\* "hi": no reference
TxtPlain == <<"h","i">>

\* "(a.pdf).": one bare path in wrapping punctuation
TxtParen == <<"(","a",".","p","d","f",")",".">>

\* "a.pdf file://[b.pdf": a bare path and a file:// URL that does not parse
TxtBadFile == <<"a",".","p","d","f"," ",
                "f","i","l","e",":","/","/","[","b",".","p","d","f">>

\* "file://h/b.pdf": a file:// URL that parses and names a host, which
\* fileURLToPath refuses
TxtHostFile == <<"f","i","l","e",":","/","/","h","/","b",".","p","d","f">>

\* "a.pdf http://x/b.png file:///c.PDF": a bare path before two links
TxtMixed == <<"a",".","p","d","f"," ",
              "h","t","t","p",":","/","/","x","/","b",".","p","n","g"," ",
              "f","i","l","e",":","/","/","/","c",".","P","D","F">>

\* "a.pdf (a.pdf)": one reference written twice
TxtDup == <<"a",".","p","d","f"," ","(","a",".","p","d","f",")">>

\* "http://[.png": a link that is no URL, which both passes accept
TxtBothPasses == <<"h","t","t","p",":","/","/","[",".","p","n","g">>

\* "file://<b.pdf": no match of the link pattern, and no URL either
TxtAngle == <<"f","i","l","e",":","/","/","<","b",".","p","d","f">>

\* "FILE://[b.pdf": a link the pattern matches whatever its case
TxtUpper == <<"F","I","L","E",":","/","/","[","b",".","p","d","f">>

\* "~/a.txt": an extension outside the table
TxtUnsupported == <<"~","/","a",".","t","x","t">>

\* the texts batches are made of, and the texts given as a batch of one
BatchTexts == {TxtPlain, TxtParen, TxtDup, TxtBadFile}

AllTexts == BatchTexts \cup {TxtHostFile, TxtMixed, TxtBothPasses,
                             TxtAngle, TxtUpper, TxtUnsupported}

Batches ==
    UNION {[1..n -> BatchTexts] : n \in 0..MaxPrompts}
    \cup {<<t>> : t \in AllTexts}

\* the values a collaborator can throw: an Error, a value JSON.stringify
\* serializes, and one it cannot serialize (a cyclic object, a BigInt)
ThrownValues ==
    {[kind |-> "Error", message |-> "API error"],
     [kind |-> "value", message |-> "{\"code\":429}"],
     [kind |-> "unserializable", message |-> ""]}

\* what result.text can be
Replies == {"reply", Undefined}

InvalidUrlError == [kind |-> "Error", message |-> "Invalid URL"]

StringifyError == [kind |-> "Error", message |-> "Converting circular structure to JSON"]

\* -------------------------------------------------------------------------
\* Completions
\* -------------------------------------------------------------------------

Completion(content, totalTokens) ==
    [tag |-> "Completion", Content |-> content, TokenUsage |-> totalTokens, Error |-> ""]

ErrorCompletion(message) ==
    [tag |-> "ErrorCompletion", Content |-> "", TokenUsage |-> 0, Error |-> message]

\* threw: JSON.stringify raised a TypeError, and so did the call
mapErrorToCompletion(error) ==
    CASE error.kind = "Error" ->
            [threw |-> FALSE, completion |-> ErrorCompletion(error.message)]
      [] error.kind = "value" ->
            [threw |-> FALSE, completion |-> ErrorCompletion(error.message)]
      [] OTHER ->
            [threw |-> TRUE, completion |-> ErrorCompletion("")]

\* -------------------------------------------------------------------------
\* main
\* -------------------------------------------------------------------------

NoTrace == [setup |-> "none", built |-> <<>>, loads |-> <<>>,
            sends |-> <<>>, counts |-> <<>>, thrown |-> <<>>]

NormIdle == [stage |-> "idle", value |-> <<>>, once |-> <<>>, twice |-> <<>>]

Init ==
    /\ prompts \in Batches
    /\ pc = "start"
    /\ i = 0
    /\ references = <<>>
    /\ k = 0
    /\ inlineParts = <<>>
    /\ messageParts = <<>>
    /\ text = ""
    /\ outputs = <<>>
    /\ response = <<>>
    /\ history = <<>>
    /\ trace = NoTrace
    /\ norm = NormIdle

\* the catch of main's outer try: one ErrorCompletion is returned, unless
\* mapErrorToCompletion raises in its turn and main's promise rejects
OuterCatch(error) ==
    LET m == mapErrorToCompletion(error)
    IN  IF m.threw
        THEN pc' = "rejected" /\ response' = <<>>
        ELSE pc' = "done" /\ response' = <<m.completion>>

\* the catch of the per-prompt try: the completion is pushed and the loop goes
\* on, unless mapErrorToCompletion raises, which the outer try catches
InnerCatch(error) ==
    LET m == mapErrorToCompletion(error)
    IN  IF m.threw
        THEN OuterCatch(StringifyError) /\ UNCHANGED <<outputs, i>>
        ELSE /\ outputs' = Append(outputs, m.completion)
             /\ i' = i + 1
             /\ pc' = "loop"
             /\ UNCHANGED response

\* a builder that puts the text part after the attachments
partsTextLast(prompt, parts) == parts \o <<TextPart(prompt)>>

\* [{ text: prompt }, ...inlineParts]
MessagePartsOf(prompt, parts) == <<TextPart(prompt)>> \o parts

\* a chat session that forgets each turn
recordNothing(session, message, reply) == session

\* what chat.sendMessage records in the session once the model has answered:
\* the user's turn and the model's
RecordHistory(session, message, reply) ==
    session \o <<[role |-> "user", parts |-> message],
                 [role |-> "model", parts |-> <<reply>>]>>

\* lines 188-199: the properties, the settings, the client, the chat session
SetupOk ==
    /\ pc = "start"
    /\ pc' = "loop"
    /\ i' = 1
    /\ outputs' = <<>>
    /\ history' = <<>>
    /\ trace' = [trace EXCEPT !.setup = "ok"]
    /\ UNCHANGED <<prompts, references, k, inlineParts, messageParts, text,
                   response, norm>>

\* lines 188-199 raise
SetupRaises ==
    /\ pc = "start"
    /\ \E error \in ThrownValues :
           /\ OuterCatch(error)
           /\ trace' = [trace EXCEPT !.setup = "raised",
                                     !.thrown = Append(@, [idx |-> 0, at |-> "setup",
                                                           error |-> error])]
    /\ UNCHANGED <<prompts, i, references, k, inlineParts, messageParts, text,
                   outputs, history, norm>>

\* line 205 up to the first load: buildMessageParts scans the prompt
StartPrompt ==
    /\ pc = "loop"
    /\ i <= Len(prompts)
    /\ LET scan == extractFileReferences(prompts[i])
       IN  /\ trace' = [trace EXCEPT !.built = Append(@, i)]
           /\ IF scan.threw
              THEN /\ InnerCatch(InvalidUrlError)
                   /\ UNCHANGED <<references, k, inlineParts, messageParts>>
              ELSE /\ references' = scan.refs
                   /\ k' = 1
                   /\ inlineParts' = <<>>
                   /\ IF scan.refs = <<>>
                      THEN /\ messageParts' = <<TextPart(prompts[i])>>
                           /\ pc' = "send"
                      ELSE /\ pc' = "load"
                           /\ UNCHANGED messageParts
                   /\ UNCHANGED <<outputs, i, response>>
    /\ UNCHANGED <<prompts, text, history, norm>>

\* lines 171-178: one turn of the loop over the references, and the return
\* after the last
LoadReference ==
    /\ pc = "load"
    /\ k <= Len(references)
    /\ \E outcome \in OutcomesFor(references[k]) :
         LET load  == loadInlineDataPart(references[k], outcome)
             parts == IF load.part # Null THEN Append(inlineParts, load.part)
                      ELSE inlineParts
         IN  /\ trace' = [trace EXCEPT !.loads =
                             Append(@, [idx |-> i, reference |-> references[k],
                                        outcome |-> outcome, threw |-> load.threw,
                                        part |-> load.part])]
             /\ IF load.threw
                THEN /\ InnerCatch(InvalidUrlError)
                     /\ UNCHANGED <<k, inlineParts, messageParts>>
                ELSE /\ inlineParts' = parts
                     /\ k' = k + 1
                     /\ IF k = Len(references)
                        THEN /\ messageParts' = MessagePartsOf(prompts[i], parts)
                             /\ pc' = "send"
                        ELSE UNCHANGED <<messageParts, pc>>
                     /\ UNCHANGED <<outputs, i, response>>
    /\ UNCHANGED <<prompts, references, text, history, norm>>

\* lines 206-207: the model answers
SendMessageOk ==
    /\ pc = "send"
    /\ \E reply \in Replies :
           /\ text' = IF reply = Undefined THEN "" ELSE reply
           /\ history' = RecordHistory(history, messageParts, reply)
    /\ trace' = [trace EXCEPT !.sends =
                    Append(@, [idx |-> i, message |-> messageParts,
                               session |-> history, ok |-> TRUE])]
    /\ pc' = "count"
    /\ UNCHANGED <<prompts, i, references, k, inlineParts, messageParts,
                   outputs, response, norm>>

\* line 206 raises
SendMessageRaises ==
    /\ pc = "send"
    /\ \E error \in ThrownValues :
           /\ InnerCatch(error)
           /\ trace' = [trace EXCEPT
                           !.sends = Append(@, [idx |-> i, message |-> messageParts,
                                                session |-> history, ok |-> FALSE]),
                           !.thrown = Append(@, [idx |-> i, at |-> "send",
                                                 error |-> error])]
    /\ UNCHANGED <<prompts, references, k, inlineParts, messageParts, text,
                   history, norm>>

\* lines 210-215: the tokens are counted and the completion pushed
CountTokensOk ==
    /\ pc = "count"
    /\ outputs' = Append(outputs, Completion(text, Len(messageParts)))
    /\ trace' = [trace EXCEPT !.counts =
                    Append(@, [idx |-> i, contents |-> messageParts, ok |-> TRUE])]
    /\ i' = i + 1
    /\ pc' = "loop"
    /\ UNCHANGED <<prompts, references, k, inlineParts, messageParts, text,
                   response, history, norm>>

\* line 210 raises
CountTokensRaises ==
    /\ pc = "count"
    /\ \E error \in ThrownValues :
           /\ InnerCatch(error)
           /\ trace' = [trace EXCEPT
                           !.counts = Append(@, [idx |-> i, contents |-> messageParts,
                                                 ok |-> FALSE]),
                           !.thrown = Append(@, [idx |-> i, at |-> "count",
                                                 error |-> error])]
    /\ UNCHANGED <<prompts, references, k, inlineParts, messageParts, text,
                   history, norm>>

\* lines 222-224: the loop is over
Return ==
    /\ pc = "loop"
    /\ i > Len(prompts)
    /\ response' = outputs
    /\ pc' = "done"
    /\ UNCHANGED <<prompts, i, references, k, inlineParts, messageParts, text,
                   outputs, history, trace, norm>>

Next ==
    \/ SetupOk
    \/ SetupRaises
    \/ StartPrompt
    \/ LoadReference
    \/ SendMessageOk
    \/ SendMessageRaises
    \/ CountTokensOk
    \/ CountTokensRaises
    \/ Return

Spec == Init /\ [][Next]_vars

\* -------------------------------------------------------------------------
\* The normalizer on its own
\* -------------------------------------------------------------------------

NormAlphabet == {"a", "(", ")", ".", "'", " "}

NormStrings == UNION {[1..n -> NormAlphabet] : n \in 0..MaxLen}

InitNorm ==
    /\ prompts = <<>>
    /\ pc = "norm"
    /\ i = 0
    /\ references = <<>>
    /\ k = 0
    /\ inlineParts = <<>>
    /\ messageParts = <<>>
    /\ text = ""
    /\ outputs = <<>>
    /\ response = <<>>
    /\ history = <<>>
    /\ trace = NoTrace
    /\ \E value \in NormStrings : norm = [NormIdle EXCEPT !.value = value]

\* the scanner normalizes a raw match (lines 95 and 103)
Normalize ==
    /\ norm.stage = "idle"
    /\ pc = "norm"
    /\ norm' = [norm EXCEPT !.stage = "once",
                            !.once = stripWrappingCharacters(norm.value)]
    /\ UNCHANGED mainVars

\* the loader normalizes the stored candidate again (line 125)
Renormalize ==
    /\ norm.stage = "once"
    /\ norm' = [norm EXCEPT !.stage = "twice",
                            !.twice = stripWrappingCharacters(norm.once)]
    /\ UNCHANGED mainVars

NextNorm == Normalize \/ Renormalize

SpecNorm == InitNorm /\ [][NextNorm]_vars

\* -------------------------------------------------------------------------
\* What the properties speak of
\* -------------------------------------------------------------------------

\* the entries of a log that belong to prompt j
OfPrompt(log, j) == SelectSeq(log, LAMBDA entry : entry.idx = j)

\* prompt j was sent to the model
Sent(j) == \E n \in DOMAIN trace.sends : trace.sends[n].idx = j

\* the loop has left prompt j behind
Passed(j) == j \in Range(trace.built) /\ j < i

OkOutcomes == {"okNoHeader", "okSameHeader", "okOtherHeader", "readOk"}

FailedOutcomes == {"fetchRaises", "notOk", "bodyRaises", "readRaises"}

\* the parts of the loads of prompt j that succeeded, in the order of the loads
LoadedParts(j) ==
    LET ok == SelectSeq(OfPrompt(trace.loads, j),
                        LAMBDA entry : entry.outcome \in OkOutcomes)
    IN  [n \in DOMAIN ok |-> ok[n].part]

\* the references of the loads of prompt j that succeeded, in the order of the loads
LoadedReferences(j) ==
    LET ok == SelectSeq(OfPrompt(trace.loads, j),
                        LAMBDA entry : entry.outcome \in OkOutcomes)
    IN  [n \in DOMAIN ok |-> ok[n].reference]

\* buildMessageParts has returned the parts of prompt i
Built == pc \in {"send", "count"}

\* the raw matches and tokens of a text that normalize to reference r
LinkOccurrences(s, r) ==
    LET matches == RemoteMatches(s, 1)
    IN  {n \in DOMAIN matches : stripWrappingCharacters(matches[n].raw) = r}

TokenOccurrences(s, r) ==
    LET tokens == SplitWhitespace(s, 1)
    IN  {n \in DOMAIN tokens : /\ stripWrappingCharacters(tokens[n].raw) = r
                               /\ ~SkipsToken(r)}

\* the position in the text at which reference r is first written
FirstPosition(s, r) ==
    LET matches == RemoteMatches(s, 1)
        tokens  == SplitWhitespace(s, 1)
        at == {matches[n].start : n \in LinkOccurrences(s, r)}
              \cup {tokens[n].start : n \in TokenOccurrences(s, r)}
    IN  CHOOSE p \in at : \A q \in at : p <= q

\* the place of reference r in the scanner's order: the links by their first
\* match, then the bare tokens by their first token
ScanRank(s, r) ==
    LET matches == RemoteMatches(s, 1)
        tokens  == SplitWhitespace(s, 1)
        links == {matches[n].start : n \in LinkOccurrences(s, r)}
        bare  == {tokens[n].start : n \in TokenOccurrences(s, r)}
    IN  IF links # {}
        THEN CHOOSE p \in links : \A q \in links : p <= q
        ELSE Len(s) + (CHOOSE p \in bare : \A q \in bare : p <= q)

\* a token of the text is a file:// URL, in any case, that new URL or
\* fileURLToPath refuses
HasMalformedFileUrl(s) ==
    LET tokens == SplitWhitespace(s, 1)
    IN  \E n \in DOMAIN tokens :
            LET candidate == stripWrappingCharacters(tokens[n].raw)
            IN  /\ StartsWith(ToLowerCase(candidate), FilePrefix)
                /\ FileUrlPath(candidate).threw

\* no token of the text carries an extension of the table
NoSupportedToken(s) ==
    LET tokens == SplitWhitespace(s, 1)
    IN  \A n \in DOMAIN tokens :
            ~IsSupported(getExtension(stripWrappingCharacters(tokens[n].raw)))

HasNoWhitespace(s) == \A n \in DOMAIN s : s[n] \notin Whitespace

\* -------------------------------------------------------------------------
\* Properties
\* -------------------------------------------------------------------------

\* C1: whenever batch setup succeeds, main returns one completion per prompt,
\* in input order, whatever the prompts' outcomes and whatever value a
\* collaborator raises: a Completion where both calls succeeded, an
\* ErrorCompletion elsewhere.
C1_OneCompletionPerPrompt ==
    (pc = "done" /\ trace.setup = "ok") =>
        /\ Len(response) = Len(prompts)
        /\ \A j \in DOMAIN response :
               response[j].tag = "Completion" <=>
                   \E n \in DOMAIN trace.counts :
                       trace.counts[n].idx = j /\ trace.counts[n].ok

\* C2: a prompt that holds a malformed file:// URL loses only that reference:
\* once the loop has passed the prompt, the prompt has been sent to the model.
C2_MalformedFileUrlConfined ==
    \A j \in DOMAIN prompts :
        (HasMalformedFileUrl(prompts[j]) /\ Passed(j)) => Sent(j)

\* C3: the attachment loader never makes a prompt fail: no load raises, a load
\* whose fetch, status, body read or file read fails returns null, and a prompt
\* whose references were loaded is sent once the loop has passed it.
C3_LoaderNeverFailsPrompt ==
    /\ \A n \in DOMAIN trace.loads :
           /\ ~trace.loads[n].threw
           /\ trace.loads[n].outcome \in FailedOutcomes => trace.loads[n].part = Null
    /\ \A j \in DOMAIN prompts :
           (Passed(j) /\ OfPrompt(trace.loads, j) # <<>>) => Sent(j)

\* C4: a send or a token count that raises for prompt j makes element j of the
\* completions an ErrorCompletion with the collaborator's message, and the loop
\* goes on: main returns only after the last prompt.
C4_FailureIsolatedPerPrompt ==
    \A n \in DOMAIN trace.thrown :
        trace.thrown[n].at \in {"send", "count"} =>
            /\ Len(outputs) >= trace.thrown[n].idx
            /\ outputs[trace.thrown[n].idx].tag = "ErrorCompletion"
            /\ trace.thrown[n].error.kind \in {"Error", "value"} =>
                   outputs[trace.thrown[n].idx].Error = trace.thrown[n].error.message
            /\ pc = "done" => i > Len(prompts)

\* C5: when batch setup raises, main does not raise: it returns exactly one
\* ErrorCompletion, and no prompt is built or sent.
C5_SetupFailureYieldsOneError ==
    trace.setup = "raised" =>
        /\ pc = "done"
        /\ Len(response) = 1
        /\ response[1].tag = "ErrorCompletion"
        /\ trace.built = <<>>
        /\ trace.sends = <<>>

C8_TextOrder ==
    Built =>
        \A a, b \in DOMAIN LoadedReferences(i) :
            a < b => FirstPosition(prompts[i], LoadedReferences(i)[a])
                     < FirstPosition(prompts[i], LoadedReferences(i)[b])

\* C8, amended: the attachments follow the text part in the scanner's order:
\* the references of the link pass by their first match, then the references
\* of the bare-token pass by their first token.
C8_ScannerOrder ==
    Built =>
        /\ Len(messageParts) = 1 + Len(LoadedReferences(i))
        /\ \A a, b \in DOMAIN LoadedReferences(i) :
               a < b => ScanRank(prompts[i], LoadedReferences(i)[a])
                        < ScanRank(prompts[i], LoadedReferences(i)[b])

\* C8 witness: a bare path written before two links, all three loaded
C8_Witness ==
    /\ pc = "send"
    /\ prompts[i] = TxtMixed
    /\ Len(messageParts) = 4

\* C9: a reference written more than once in a prompt is loaded exactly once
\* by the time the parts are returned, and no reference is ever loaded twice
\* for one prompt.
C9_LoadedOnce ==
    /\ \A a, b \in DOMAIN trace.loads :
           (/\ trace.loads[a].idx = trace.loads[b].idx
            /\ trace.loads[a].reference = trace.loads[b].reference) => a = b
    /\ Built =>
           \A r \in Range(references) :
               Cardinality({n \in DOMAIN trace.loads :
                               /\ trace.loads[n].idx = i
                               /\ trace.loads[n].reference = r}) = 1

\* C9 witness: parts are returned for a prompt that writes one reference twice
C9_Witness ==
    /\ pc = "send"
    /\ \E r \in Range(references) :
           /\ Cardinality(LinkOccurrences(prompts[i], r))
              + Cardinality(TokenOccurrences(prompts[i], r)) >= 2
           /\ \E n \in DOMAIN trace.loads :
                  trace.loads[n].idx = i /\ trace.loads[n].reference = r

\* C10, as claimed: normalizing the normalizer's result again changes nothing,
\* for every string.
C10_IdempotentOnEveryString ==
    norm.stage = "twice" => norm.twice = norm.once

\* C10, amended: normalizing the normalizer's result again changes nothing for
\* every string without whitespace, as every match and every token is.
C10_IdempotentWithoutWhitespace ==
    (norm.stage = "twice" /\ HasNoWhitespace(norm.value)) => norm.twice = norm.once

\* C10 witness: a string without whitespace that the normalizer shortened is
\* normalized again
C10_Witness ==
    /\ norm.stage = "twice"
    /\ HasNoWhitespace(norm.value)
    /\ norm.once # norm.value
    /\ norm.once # <<>>

====
